---- MODULE Spec2Model ----
(***************************************************************************)
(* The plug-and-play connection store of ambianic-ui (src/store/pnp.js):   *)
(* the Vuex state, its mutations and actions, and the PeerJS objects       *)
(* (relay session objects, data connections) whose events drive them.      *)
(*                                                                         *)
(* One step of the model is one handler run from its invocation to its     *)
(* next real suspension point (a timer, a transport event, the room query  *)
(* or the authentication round trip).  `await` of an already settled       *)
(* promise only yields to the microtask queue and is not a step boundary.  *)
(*                                                                         *)
(* A handler is an operator from a world record w to a world record:       *)
(*   w.state     the Vuex state object                                     *)
(*   w.storage   window.localStorage[STORAGE_KEY.remotePeerId]             *)
(*   w.sessions  the PeerJS Peer objects created so far                    *)
(*   w.conns     the PeerJS DataConnection objects (a dead one, which can  *)
(*               neither act nor be reached, gives its place to a new one) *)
(*   w.timers    the pending setTimeout callbacks and pending room queries *)
(*   w.fx        the calls the handler made, in order (a log)              *)
(*   w.ok        FALSE when the handler would exceed a bound of the model  *)
(*   w.exc       TRUE when the handler ended by an uncaught exception      *)
(* `last` is the handler of the latest step: its name and the log of its   *)
(* calls; `failures` counts the relay failure events so far; `cap` holds   *)
(* the numbers of objects and of relay failures the exploration allows    *)
(* (see the bounds).                                                       *)
(***************************************************************************)
EXTENDS Integers, Sequences, FiniteSets, TLC

(* ------------------------------ bounds -------------------------------- *)
MaxConns == 1
MaxSessions == 1
MaxFailures == 1
MaxLoops == 1

(* --------------------------- program constants ------------------------ *)
PEER_DISCONNECTED == "PEER_DISCONNECTED"
PEER_CONNECTING == "PEER_CONNECTING"
PEER_DISCONNECTING == "PEER_DISCONNECTING"
PEER_AUTHENTICATING == "PEER_AUTHENTICATING"
PEER_CONNECTED == "PEER_CONNECTED"
PEER_CONNECTION_ERROR == "PEER_CONNECTION_ERROR"
PEER_DISCOVERING == "PEER_DISCOVERING"
PEER_DISCOVERING_CANCELLED == "PEER_DISCOVERING_CANCELLED"
PEER_DISCOVERING_ERROR == "PEER_DISCOVERING_ERROR"
PEER_DISCOVERING_OFF == "PEER_DISCOVERING_OFF"
PEER_DISCOVERING_DONE == "PEER_DISCOVERING_DONE"
PNP_SERVICE_DISCONNECTED == "PNP_SERVICE_DISCONNECTED"
PNP_SERVICE_CONNECTING == "PNP_SERVICE_CONNECTING"
PNP_SERVICE_CONNECTED == "PNP_SERVICE_CONNECTED"

discoveryLoopPause == 3000
peerConnectLoopPause == 500
peerConnectOfferTimeout == 15000
pnpReconnectPause == 3000
authenticateDelay == 1000
HTTP_OK == 200

\* the user messages the handlers publish
MSG_NONE == ""
MSG_STILL_LOOKING == "Still looking. Please make sure you are on the same local network as the Ambianic Edge device."
MSG_DISCONNECTED == "Disconnected. Please check your internet connection."
MSG_SERVER_CLOSED == "Signaling server closed connection. Will try to reconnect."
MSG_SERVICE_ERROR == "Error while connecting. Will retry shortly. Is your Internet connection OK?"
MSG_CONN_CLOSED == "Connection to remote peer closed"
MSG_CONN_ERROR == "Error in connection to remote peer ID"
MSG_OFFER_EXPIRED == "Peer connection attempt failed. Is the remote device online?"
MSG_AUTHENTICATING == "Authenticating remote peer"
MSG_AUTH_FAILED == "Remote peer authentication failed."
MSG_DISCOVERY_ERROR == "Error while discovering peers on local WiFi."

\* text.includes('Ambianic'): the trust marker, as a sequence of characters
TrustMarker == <<"A", "m", "b", "i", "a", "n", "i", "c">>

(* ------------------------------ values -------------------------------- *)
\* undefined / null identifier
NoId == "undefined"
\* the identifiers the relay hands to this client
LocalIds == {"me"}
\* the identifiers of remote devices
RemoteIds == {"A", "B"}

VARIABLES state, storage, sessions, conns, timers, failures, cap, last

vars == <<state, storage, sessions, conns, timers, failures, cap, last>>

\* the world the handlers of this step start from; closeThrows: whether a
\* connection.close() of this step raises
World(closeThrows) ==
  [state |-> state, storage |-> storage, sessions |-> sessions,
   conns |-> conns, timers |-> timers, cap |-> cap, fx |-> <<>>, ok |-> TRUE,
   closeThrows |-> closeThrows, exc |-> FALSE]

\* the handler logs a call it made
Fx(w, e) == [w EXCEPT !.fx = Append(@, e)]

(* ----------------------------- mutations ------------------------------ *)
commit_PEER_NEW_INSTANCE(w, peer) ==
  [Fx(w, <<"commit", "PEER_NEW_INSTANCE">>) EXCEPT !.state.peer = peer]

commit_PEER_DISCONNECTED(w) ==
  [Fx(w, <<"commit", PEER_DISCONNECTED>>) EXCEPT
     !.state.peerConnection = 0,
     !.state.peerConnectionStatus = PEER_DISCONNECTED,
     !.state.peerFetch = 0,
     !.state.edgeAPI = FALSE]

commit_PEER_DISCOVERING_DONE(w, remotePeerIds) ==
  [Fx(w, <<"commit", PEER_DISCOVERING_DONE>>) EXCEPT
     !.state.discoveryStatus = PEER_DISCOVERING_DONE,
     !.state.discoveredPeers = remotePeerIds]

commit_PEER_DISCOVERING(w) ==
  [Fx(w, <<"commit", PEER_DISCOVERING>>) EXCEPT
     !.state.discoveryStatus = PEER_DISCOVERING,
     !.state.discoveredPeers = [undef |-> FALSE, list |-> <<>>]]

commit_PEER_DISCOVERING_ERROR(w) ==
  [Fx(w, <<"commit", PEER_DISCOVERING_ERROR>>) EXCEPT
     !.state.discoveryStatus = PEER_DISCOVERING_ERROR]

commit_PEER_CONNECTING(w) ==
  [Fx(w, <<"commit", PEER_CONNECTING>>) EXCEPT
     !.state.peerConnectionStatus = PEER_CONNECTING]

commit_PEER_DISCONNECTING(w) ==
  [Fx(w, <<"commit", PEER_DISCONNECTING>>) EXCEPT
     !.state.peerConnectionStatus = PEER_DISCONNECTING]

commit_PEER_AUTHENTICATING(w) ==
  [Fx(w, <<"commit", PEER_AUTHENTICATING>>) EXCEPT
     !.state.peerConnectionStatus = PEER_AUTHENTICATING]

commit_PEER_CONNECTED(w, peerConnection) ==
  [Fx(w, <<"commit", PEER_CONNECTED>>) EXCEPT
     !.state.peerConnection = peerConnection,
     !.state.peerConnectionStatus = PEER_CONNECTED]

commit_PEER_CONNECTION_ERROR(w) ==
  [Fx(w, <<"commit", PEER_CONNECTION_ERROR>>) EXCEPT
     !.state.peerConnectionStatus = PEER_CONNECTION_ERROR]

commit_PNP_SERVICE_DISCONNECTED(w) ==
  [Fx(w, <<"commit", PNP_SERVICE_DISCONNECTED>>) EXCEPT
     !.state.pnpServiceConnectionStatus = PNP_SERVICE_DISCONNECTED]

commit_PNP_SERVICE_CONNECTING(w) ==
  [Fx(w, <<"commit", PNP_SERVICE_CONNECTING>>) EXCEPT
     !.state.pnpServiceConnectionStatus = PNP_SERVICE_CONNECTING]

commit_PNP_SERVICE_CONNECTED(w) ==
  [Fx(w, <<"commit", PNP_SERVICE_CONNECTED>>) EXCEPT
     !.state.pnpServiceConnectionStatus = PNP_SERVICE_CONNECTED]

commit_USER_MESSAGE(w, newUserMessage) ==
  [w EXCEPT !.state.userMessage = newUserMessage]

commit_NEW_PEER_ID(w, newPeerId) ==
  [w EXCEPT !.state.myPeerId = newPeerId]

commit_NEW_REMOTE_PEER_ID(w, newRemotePeerId) ==
  [Fx(w, <<"commit", "NEW_REMOTE_PEER_ID">>) EXCEPT
     !.state.remotePeerId = newRemotePeerId,
     !.storage = newRemotePeerId]

commit_REMOTE_PEER_ID_REMOVED(w) ==
  [Fx(w, <<"commit", "REMOTE_PEER_ID_REMOVED">>) EXCEPT
     !.state.remotePeerId = NoId,
     !.storage = NoId]

commit_PEER_FETCH(w, peerFetch) ==
  [w EXCEPT !.state.peerFetch = peerFetch]

commit_EDGE_API(w, edgeAPI) ==
  [w EXCEPT !.state.edgeAPI = edgeAPI]

(* ------------------------------ timers -------------------------------- *)
\* setTimeout(() => dispatch(PNP_SERVICE_CONNECT), 3000)
setTimeout_reconnect(w) ==
  [Fx(w, <<"setTimeout", "PNP_SERVICE_CONNECT", pnpReconnectPause>>) EXCEPT
     !.timers.reconnect = @ + 1]

\* the suspended loops: pending loop timers and pending room queries
RECURSIVE SumOver(_, _)
SumOver(f, S) ==
  IF S = {} THEN 0
  ELSE LET x == CHOOSE y \in S : TRUE IN f[x] + SumOver(f, S \ {x})

PendingLoops(t) ==
  t.discoveryLoop + t.roomQuery + SumOver(t.peerConnectLoop, DOMAIN t.peerConnectLoop)

\* setTimeout(discoveryLoop, state.discoveryLoopPause)
setTimeout_discoveryLoop(w) ==
  [Fx(w, <<"setTimeout", "discoveryLoop", discoveryLoopPause>>) EXCEPT
     !.timers.discoveryLoop = @ + 1,
     !.ok = @ /\ PendingLoops(w.timers) < w.cap.loops]

\* setTimeout(peerConnectLoop, state.peerConnectLoopPause)
setTimeout_peerConnectLoop(w, remotePeerId) ==
  [Fx(w, <<"setTimeout", "peerConnectLoop", peerConnectLoopPause>>) EXCEPT
     !.timers.peerConnectLoop[remotePeerId] = @ + 1,
     !.ok = @ /\ PendingLoops(w.timers) < w.cap.loops]

\* clearTimeout(peerConnectOfferTimer) in the handlers of connection c
clearTimeout_offer(w, c) ==
  IF w.conns[c].timer = "armed"
  THEN [w EXCEPT !.conns[c].timer = "cleared"]
  ELSE w

(* ------------------------- signaling session -------------------------- *)
\* peer.reconnect() of PeerJS: a session that is down starts connecting again
peer_reconnect(w, peer) ==
  [Fx(w, <<"peer.reconnect", peer>>) EXCEPT
     !.sessions[peer].st = IF @ = "down" THEN "connecting" ELSE @]

PNP_SERVICE_RECONNECT(w) ==
  LET peer == w.state.peer IN
  IF w.sessions[peer].st = "open" THEN w
  ELSE IF w.state.pnpServiceConnectionStatus = PNP_SERVICE_CONNECTING THEN w
  ELSE LET w1 == IF w.sessions[peer].id = NoId
                 THEN [w EXCEPT !.sessions[peer].id = w.state.myPeerId]
                 ELSE w
       IN peer_reconnect(commit_PNP_SERVICE_CONNECTING(w1), peer)

\* PNP_SERVICE_CONNECT that does not skip a connection cycle in progress
PNP_SERVICE_CONNECT_noCoalescing(w0) ==
  LET w == Fx(w0, <<"dispatch", "PNP_SERVICE_CONNECT">>)
      peer == w.state.peer
  IN
  IF peer # 0 /\ w.sessions[peer].st = "open" THEN w
  ELSE IF peer # 0
  THEN peer_reconnect(commit_PNP_SERVICE_CONNECTING(w), peer)
  ELSE LET newPeer == Len(w.sessions) + 1
           w1 == [Fx(w, <<"new Peer", newPeer>>) EXCEPT
                    !.sessions = Append(@, [st |-> "connecting", id |-> w.state.myPeerId]),
                    !.ok = @ /\ Len(w.sessions) < w.cap.sessions]
       IN commit_PNP_SERVICE_CONNECTING(commit_PEER_NEW_INSTANCE(w1, newPeer))

PNP_SERVICE_CONNECT(w0) ==
  LET w == Fx(w0, <<"dispatch", "PNP_SERVICE_CONNECT">>)
      peer == w.state.peer
  IN
  IF peer # 0 /\ w.sessions[peer].st = "open" THEN w
  ELSE IF w.state.pnpServiceConnectionStatus = PNP_SERVICE_CONNECTING THEN w
  ELSE IF peer # 0 THEN PNP_SERVICE_RECONNECT(w)
  ELSE LET newPeer == Len(w.sessions) + 1
           w1 == [Fx(w, <<"new Peer", newPeer>>) EXCEPT
                    !.sessions = Append(@, [st |-> "connecting", id |-> w.state.myPeerId]),
                    !.ok = @ /\ Len(w.sessions) < w.cap.sessions]
       IN commit_PNP_SERVICE_CONNECTING(commit_PEER_NEW_INSTANCE(w1, newPeer))

INITIALIZE_PNP(w) ==
  PNP_SERVICE_CONNECT([w EXCEPT !.state.peer = 0])

\* peer.on('open'): the relay assigned identifier id (NoId: it gave none)
on_peer_open(w, peer, id) ==
  LET w1 == commit_PNP_SERVICE_CONNECTED([w EXCEPT !.sessions[peer].st = "open",
                                                   !.sessions[peer].id = id])
  IN IF id = NoId
     THEN [w1 EXCEPT !.sessions[peer].id = w1.state.myPeerId]
     ELSE IF w1.state.myPeerId # id THEN commit_NEW_PEER_ID(w1, id) ELSE w1

\* peer.on('disconnected')
on_peer_disconnected(w, peer) ==
  setTimeout_reconnect(
    commit_USER_MESSAGE(
      commit_PNP_SERVICE_DISCONNECTED([w EXCEPT !.sessions[peer].st = "down"]),
      MSG_DISCONNECTED))

\* peer.on('close')
on_peer_close(w, peer) ==
  setTimeout_reconnect(
    commit_USER_MESSAGE(
      commit_PNP_SERVICE_DISCONNECTED([w EXCEPT !.sessions[peer].st = "down"]),
      MSG_SERVER_CLOSED))

\* peer.on('error') that leaves the peer connection as it is
on_peer_error_keepsPeerConnection(w, peer) ==
  setTimeout_reconnect(
    commit_PNP_SERVICE_DISCONNECTED(
      commit_USER_MESSAGE(w, MSG_SERVICE_ERROR)))

\* peer.on('error'): PeerJS emits the error before it disconnects or destroys
\* the session (if it does at all), so the session object is as it was
on_peer_error(w, peer) ==
  setTimeout_reconnect(
    commit_PEER_DISCONNECTED(
      commit_PNP_SERVICE_DISCONNECTED(
        commit_USER_MESSAGE(w, MSG_SERVICE_ERROR))))

(* --------------------------- data connections ------------------------- *)
\* HANDLE_PEER_CONNECTION_ERROR({ peerConnection, errMsg })
HANDLE_PEER_CONNECTION_ERROR(w, peerConnection, errMsg) ==
  commit_PEER_CONNECTION_ERROR(
    commit_USER_MESSAGE(Fx(w, <<"dispatch", "HANDLE_PEER_CONNECTION_ERROR", peerConnection>>),
                        errMsg))

\* peerConnection.on('close')
on_conn_close(w, c) ==
  commit_USER_MESSAGE(commit_PEER_DISCONNECTED(clearTimeout_offer(w, c)), MSG_CONN_CLOSED)

\* peerConnection.on('error')
on_conn_error(w, c) ==
  HANDLE_PEER_CONNECTION_ERROR(clearTimeout_offer(w, c), c, MSG_CONN_ERROR)

\* peerConnection.on('open') that leaves the offer timer running
on_conn_open_timerKept(w, c) ==
  LET w1 == [w EXCEPT !.conns[c].st = "open"]
      w2 == commit_PEER_FETCH(w1, c)
  IN [Fx(w2, <<"setTimeout", "PEER_AUTHENTICATE", authenticateDelay>>) EXCEPT
        !.conns[c].auth = "scheduled"]

\* peerConnection.on('open'); PEER_AUTHENTICATE is scheduled 1000 ms later
on_conn_open(w, c) ==
  LET w1 == clearTimeout_offer([w EXCEPT !.conns[c].st = "open"], c)
      w2 == commit_PEER_FETCH(w1, c)
  IN [Fx(w2, <<"setTimeout", "PEER_AUTHENTICATE", authenticateDelay>>) EXCEPT
        !.conns[c].auth = "scheduled"]

\* connection.close() as the store calls it.  PeerJS's DataConnection.close()
\* emits 'close' synchronously when the connection was open and is silent
\* otherwise; w.closeThrows: this call raises instead (the store guards one of
\* its calls with try/catch)
conn_close(w, c) ==
  IF w.closeThrows
  THEN [Fx(w, <<"throw", "conn.close", c>>) EXCEPT !.exc = TRUE]
  ELSE LET w1 == [Fx(w, <<"conn.close", c>>) EXCEPT !.conns[c].st = "closed"]
       IN IF w.conns[c].st = "open" THEN on_conn_close(w1, c) ELSE w1

\* connection object c can no longer act or be reached: it is closed, none of
\* its callbacks is pending, and neither the store nor a pending request holds it
Dead(w, c) ==
  /\ w.conns[c].st = "closed"
  /\ w.conns[c].timer # "armed"
  /\ w.conns[c].auth \notin {"scheduled", "inflight"}
  /\ w.state.peerConnection # c
  /\ w.state.peerFetch # c
  /\ \A d \in 1..Len(w.conns) : w.conns[d].auth = "inflight" => w.conns[d].via # c

\* where the next connection object goes: the place of a dead one, if any
NewConn(w) ==
  LET free == {c \in 1..Len(w.conns) : Dead(w, c)}
  IN IF free = {} THEN Len(w.conns) + 1
     ELSE CHOOSE c \in free : \A d \in free : c <= d

\* setPeerConnectionHandlers(...): the new connection object, its handlers wired
setPeerConnectionHandlers(w, remotePeerId, outbound) ==
  LET c == NewConn(w)
      conn == [peer |-> remotePeerId, st |-> "pending",
               timer |-> IF outbound THEN "armed" ELSE "none",
               auth |-> "none", via |-> 0]
  IN IF c <= Len(w.conns)
     THEN [w EXCEPT !.conns[c] = conn]
     ELSE [w EXCEPT !.conns = Append(@, conn), !.ok = @ /\ Len(w.conns) < w.cap.conns]

\* peer.on('connection'): a remote peer initiates a connection
on_peer_connection(w, remotePeerId) ==
  commit_PEER_CONNECTING(setPeerConnectionHandlers(w, remotePeerId, FALSE))

peerConnectLoop(w, remotePeerId) ==
  IF w.state.pnpServiceConnectionStatus # PNP_SERVICE_CONNECTED
  THEN setTimeout_peerConnectLoop(PNP_SERVICE_CONNECT(w), remotePeerId)
  ELSE LET w1 == commit_PEER_CONNECTING(w) IN
       IF w1.state.peer = 0
       THEN \* state.peer is undefined: peer.connect raises a TypeError
            [Fx(w1, <<"throw", "peer.connect">>) EXCEPT !.exc = TRUE]
       ELSE LET c == NewConn(w1)
                w2 == Fx(w1, <<"peer.connect", c, remotePeerId>>)
                w3 == Fx(w2, <<"setTimeout", "handlePeerConnectOfferTimeout",
                               peerConnectOfferTimeout>>)
            IN setPeerConnectionHandlers(w3, remotePeerId, TRUE)

\* PEER_CONNECT whose guard forgets the PEER_CONNECTED case
PEER_CONNECT_guardConnectingOnly(w0, remotePeerId) ==
  LET w == Fx(w0, <<"dispatch", "PEER_CONNECT", remotePeerId>>) IN
  IF w.state.peerConnectionStatus = PEER_CONNECTING
  THEN w
  ELSE LET w1 == IF w.state.peerConnection # 0
                 THEN conn_close(w, w.state.peerConnection)
                 ELSE w
       IN IF w1.exc THEN w1 ELSE peerConnectLoop(w1, remotePeerId)

PEER_CONNECT(w0, remotePeerId) ==
  LET w == Fx(w0, <<"dispatch", "PEER_CONNECT", remotePeerId>>) IN
  IF w.state.peerConnectionStatus \in {PEER_CONNECTING, PEER_CONNECTED}
  THEN w
  ELSE LET w1 == IF w.state.peerConnection # 0
                 THEN conn_close(w, w.state.peerConnection)
                 ELSE w
       IN IF w1.exc THEN w1 ELSE peerConnectLoop(w1, remotePeerId)

\* handlePeerConnectOfferTimeout of the attempt that created connection c
handlePeerConnectOfferTimeout(w0, c) ==
  LET w == [w0 EXCEPT !.conns[c].timer = "fired"]
      w1 == IF w.state.peerConnection # 0
            THEN conn_close(w, w.state.peerConnection)
            ELSE w
  IN IF w1.exc THEN w1 ELSE HANDLE_PEER_CONNECTION_ERROR(w1, c, MSG_OFFER_EXPIRED)

PEER_DISCONNECT(w) ==
  IF w.state.peerConnectionStatus # PEER_DISCONNECTED
  THEN LET w1 == commit_PEER_DISCONNECTING(w)
           conn == w1.state.peerConnection
           w2 == IF conn # 0
                 THEN [conn_close(w1, conn) EXCEPT !.exc = FALSE]
                 ELSE w1
       IN commit_PEER_DISCONNECTED(w2)
  ELSE w

\* REMOVE_REMOTE_PEER_ID that clears the identifier without disconnecting
REMOVE_REMOTE_PEER_ID_noDisconnect(w) ==
  commit_REMOTE_PEER_ID_REMOVED(w)

REMOVE_REMOTE_PEER_ID(w) ==
  commit_REMOTE_PEER_ID_REMOVED(PEER_DISCONNECT(w))

\* CHANGE_REMOTE_PEER_ID that forgets to disconnect and remove first
CHANGE_REMOTE_PEER_ID_noRemove(w, remotePeerId) ==
  PEER_CONNECT(commit_NEW_REMOTE_PEER_ID(w, remotePeerId), remotePeerId)

CHANGE_REMOTE_PEER_ID(w, remotePeerId) ==
  PEER_CONNECT(commit_NEW_REMOTE_PEER_ID(REMOVE_REMOTE_PEER_ID(w), remotePeerId),
               remotePeerId)

(* --------------------------- authentication --------------------------- *)
\* the character of a byte, for the bytes the model's bodies use
Chr(b) ==
  CASE b = 65 -> "A" [] b = 97 -> "a" [] b = 98 -> "b" [] b = 99 -> "c"
    [] b = 105 -> "i" [] b = 109 -> "m" [] b = 110 -> "n" [] b = 111 -> "o"
    [] OTHER -> "?"

\* peerFetch.textDecode(content): the bytes of the body as text
textDecode(content) == [i \in 1..Len(content) |-> Chr(content[i])]

\* text.includes(marker)
includes(text, marker) ==
  \E i \in 0..(Len(text) - Len(marker)) :
     \A j \in 1..Len(marker) : text[i + j] = marker[j]

\* PEER_AUTHENTICATE up to `await state.edgeAPI.auth()`
PEER_AUTHENTICATE_begin(w, c) ==
  LET w1 == commit_USER_MESSAGE(
              commit_PEER_AUTHENTICATING(Fx(w, <<"dispatch", "PEER_AUTHENTICATE", c>>)),
              MSG_AUTHENTICATING)
      w2 == commit_EDGE_API(w1, TRUE)
  IN [Fx(w2, <<"edgeAPI.auth", w2.state.peerFetch>>) EXCEPT
        !.conns[c].auth = "inflight",
        !.conns[c].via = w2.state.peerFetch]

\* the test of auth()'s outcome with the trust marker left unchecked
authPassed_statusOnly(w, r) ==
  /\ r.kind = "response"
  /\ r.status = HTTP_OK
  /\ w.state.peerFetch # 0
  /\ r.decodable

\* the test PEER_AUTHENTICATE makes of auth()'s outcome r
authPassed(w, r) ==
  /\ r.kind = "response"
  /\ r.status = HTTP_OK
  /\ w.state.peerFetch # 0
  /\ r.decodable
  /\ includes(textDecode(r.content), TrustMarker)

\* PEER_AUTHENTICATE that stores the identifier before it looks at the outcome
PEER_AUTHENTICATE_end_persistFirst(w0, c, r) ==
  LET w == IF w0.state.remotePeerId # w0.conns[c].peer
           THEN commit_NEW_REMOTE_PEER_ID(w0, w0.conns[c].peer)
           ELSE w0
  IN IF authPassed(w, r)
     THEN commit_PEER_CONNECTED([w EXCEPT !.conns[c].auth = "passed"], c)
     ELSE HANDLE_PEER_CONNECTION_ERROR([w EXCEPT !.conns[c].auth = "failed"], c,
                                       MSG_AUTH_FAILED)

\* PEER_AUTHENTICATE from the outcome r of `await state.edgeAPI.auth()` on
PEER_AUTHENTICATE_end(w, c, r) ==
  IF authPassed(w, r)
  THEN LET w1 == commit_PEER_CONNECTED([w EXCEPT !.conns[c].auth = "passed"], c)
       IN IF w1.state.remotePeerId # w1.conns[c].peer
          THEN commit_NEW_REMOTE_PEER_ID(w1, w1.conns[c].peer)
          ELSE w1
  ELSE HANDLE_PEER_CONNECTION_ERROR([w EXCEPT !.conns[c].auth = "failed"], c,
                                    MSG_AUTH_FAILED)

(* ------------------------------ discovery ----------------------------- *)
\* discoveryLoop that queries the room whatever the relay status is
discoveryLoop_queryRegardless(w) ==
  LET w1 == IF w.state.pnpServiceConnectionStatus # PNP_SERVICE_CONNECTED
            THEN PNP_SERVICE_CONNECT(w)
            ELSE w
  IN [Fx(w1, <<"getRoomMembers">>) EXCEPT
        !.timers.roomQuery = @ + 1,
        !.ok = @ /\ PendingLoops(w1.timers) < w1.cap.loops]

discoveryLoop(w) ==
  LET w1 == IF w.state.pnpServiceConnectionStatus # PNP_SERVICE_CONNECTED
            THEN PNP_SERVICE_CONNECT(w)
            ELSE w
  IN IF w1.state.pnpServiceConnectionStatus = PNP_SERVICE_CONNECTED
     THEN \* discoverRemotePeerIds up to `await myRoom.getRoomMembers()`
          [Fx(w1, <<"getRoomMembers">>) EXCEPT
             !.timers.roomQuery = @ + 1,
             !.ok = @ /\ PendingLoops(w1.timers) < w1.cap.loops]
     ELSE setTimeout_discoveryLoop(w1)

PEER_DISCOVER(w) ==
  discoveryLoop(commit_PEER_DISCOVERING(Fx(w, <<"dispatch", "PEER_DISCOVER">>)))

\* discoverRemotePeerIds from the answer of getRoomMembers() on, and what
\* discoveryLoop does with its result; r.kind = "throw": the query failed
discoverRemotePeerIds(w, r) ==
  IF r.kind = "throw" \/ r.clientsIds.undef
  THEN commit_USER_MESSAGE(commit_PEER_DISCOVERING_ERROR(w), MSG_DISCOVERY_ERROR)
  ELSE LET peerIds == r.clientsIds.list
           remotePeerIds == SelectSeq(peerIds, LAMBDA pid : pid # w.state.myPeerId)
       IN IF Len(remotePeerIds) > 0
          THEN commit_PEER_DISCOVERING_DONE(w, [undef |-> FALSE, list |-> remotePeerIds])
          ELSE commit_PEER_DISCOVERING_DONE(commit_USER_MESSAGE(w, MSG_STILL_LOOKING),
                                            [undef |-> TRUE, list |-> <<>>])

(* ------------------------------- inputs ------------------------------- *)
NoAnswer == [kind |-> "none", status |-> 0, decodable |-> FALSE, content |-> <<>>]

\* bodies of authentication responses, as bytes
BODY_AMBIANIC == <<65, 109, 98, 105, 97, 110, 105, 99>>
BODY_EMBEDDED == <<111, 65, 109, 98, 105, 97, 110, 105, 99, 111>>
BODY_LOWERCASE == <<97, 109, 98, 105, 97, 110, 105, 99>>
BODY_TRUNCATED == <<65, 109, 98, 105, 97, 110, 105>>
BODY_NO_MARKER == <<110, 111>>

\* the outcomes of `await state.edgeAPI.auth()`: it throws, it resolves to
\* nothing, or it resolves to a response {header: {status}, content}
AuthAnswers ==
  {[NoAnswer EXCEPT !.kind = "throw"], [NoAnswer EXCEPT !.kind = "null"]}
  \cup {[kind |-> "response", status |-> s, decodable |-> TRUE, content |-> b] :
          s \in {HTTP_OK, 500},
          b \in {BODY_AMBIANIC, BODY_EMBEDDED, BODY_LOWERCASE, BODY_TRUNCATED, BODY_NO_MARKER}}
  \cup {[kind |-> "response", status |-> HTTP_OK, decodable |-> FALSE, content |-> <<>>]}

NoRoom == [kind |-> "none", clientsIds |-> [undef |-> TRUE, list |-> <<>>]]

\* the outcomes of `await myRoom.getRoomMembers()`
RoomAnswers ==
  {[NoRoom EXCEPT !.kind = "throw"], [NoRoom EXCEPT !.kind = "ok"]}
  \cup {[kind |-> "ok", clientsIds |-> [undef |-> FALSE, list |-> l]] :
          l \in {<<>>, <<"me">>, <<"me", "A">>, <<"B", "me", "A">>, <<"A">>}}

(* ------------------------------- actions ------------------------------ *)
\* the state of the store module when it is loaded
InitState ==
  [peer |-> 0, myPeerId |-> NoId, remotePeerId |-> NoId,
   discoveryStatus |-> PEER_DISCOVERING_OFF,
   discoveredPeers |-> [undef |-> FALSE, list |-> <<>>],
   userMessage |-> MSG_NONE,
   peerConnection |-> 0, peerConnectionStatus |-> PEER_DISCONNECTED,
   pnpServiceConnectionStatus |-> PNP_SERVICE_DISCONNECTED,
   peerFetch |-> 0, edgeAPI |-> FALSE]

\* the world at load time, localStorage holding remotePeerId
InitWorld(remotePeerId) ==
  [state |-> [InitState EXCEPT !.remotePeerId = remotePeerId],
   storage |-> remotePeerId, sessions |-> <<>>, conns |-> <<>>,
   timers |-> [reconnect |-> 0, discoveryLoop |-> 0, roomQuery |-> 0,
               peerConnectLoop |-> [x \in RemoteIds |-> 0]],
   cap |-> [conns |-> MaxConns, sessions |-> MaxSessions, failures |-> MaxFailures,
           loops |-> MaxLoops],
   fx |-> <<>>, ok |-> TRUE, closeThrows |-> FALSE, exc |-> FALSE]

\* the variables hold world w, reached by handler op
Holds(op, w) ==
  /\ state = w.state
  /\ storage = w.storage
  /\ sessions = w.sessions
  /\ conns = w.conns
  /\ timers = w.timers
  /\ cap = w.cap
  /\ failures = 0
  /\ last = [op |-> op, fx |-> w.fx]

Init == \E id \in {NoId, "A"} : Holds("init", [InitWorld(id) EXCEPT !.fx = <<>>])

\* the step of handler op that ends in world w
Do(op, w) ==
  /\ w.ok
  /\ state' = w.state
  /\ storage' = w.storage
  /\ sessions' = w.sessions
  /\ conns' = w.conns
  /\ timers' = w.timers
  /\ cap' = cap
  /\ last' = [op |-> op, fx |-> w.fx]

(* the operations the UI dispatches *)
Initialize ==
  /\ Do("INITIALIZE_PNP", INITIALIZE_PNP(World(FALSE)))
  /\ UNCHANGED failures

Discover ==
  /\ Do("PEER_DISCOVER", PEER_DISCOVER(World(FALSE)))
  /\ UNCHANGED failures

ConnectStep(x, thr) ==
  /\ Do("PEER_CONNECT", PEER_CONNECT(World(thr), x))
  /\ UNCHANGED failures

Connect == \E x \in RemoteIds, thr \in BOOLEAN : ConnectStep(x, thr)

DisconnectStep(thr) ==
  /\ Do("PEER_DISCONNECT", PEER_DISCONNECT(World(thr)))
  /\ UNCHANGED failures

Disconnect == \E thr \in BOOLEAN : DisconnectStep(thr)

RemoveRemotePeerIdStep(thr) ==
  /\ Do("REMOVE_REMOTE_PEER_ID", REMOVE_REMOTE_PEER_ID(World(thr)))
  /\ UNCHANGED failures

RemoveRemotePeerId == \E thr \in BOOLEAN : RemoveRemotePeerIdStep(thr)

ChangeRemotePeerIdStep(x, thr) ==
  /\ Do("CHANGE_REMOTE_PEER_ID", CHANGE_REMOTE_PEER_ID(World(thr), x))
  /\ UNCHANGED failures

ChangeRemotePeerId == \E x \in RemoteIds, thr \in BOOLEAN : ChangeRemotePeerIdStep(x, thr)

(* timers *)
ReconnectTimer ==
  /\ timers.reconnect > 0
  /\ Do("reconnectTimer",
        PNP_SERVICE_CONNECT([World(FALSE) EXCEPT !.timers.reconnect = @ - 1]))
  /\ UNCHANGED failures

DiscoveryLoopTimer ==
  /\ timers.discoveryLoop > 0
  /\ Do("discoveryLoop",
        discoveryLoop([World(FALSE) EXCEPT !.timers.discoveryLoop = @ - 1]))
  /\ UNCHANGED failures

PeerConnectLoopTimerStep(x) ==
  /\ timers.peerConnectLoop[x] > 0
  /\ Do("peerConnectLoop",
        peerConnectLoop([World(FALSE) EXCEPT !.timers.peerConnectLoop[x] = @ - 1], x))
  /\ UNCHANGED failures

PeerConnectLoopTimer == \E x \in RemoteIds : PeerConnectLoopTimerStep(x)

OfferTimeoutStep(c, thr) ==
  /\ conns[c].timer = "armed"
  /\ Do("handlePeerConnectOfferTimeout", handlePeerConnectOfferTimeout(World(thr), c))
  /\ UNCHANGED failures

OfferTimeout == \E c \in 1..Len(conns), thr \in BOOLEAN : OfferTimeoutStep(c, thr)

AuthenticateTimerStep(c) ==
  /\ conns[c].auth = "scheduled"
  /\ Do("PEER_AUTHENTICATE", PEER_AUTHENTICATE_begin(World(FALSE), c))
  /\ UNCHANGED failures

AuthenticateTimer == \E c \in 1..Len(conns) : AuthenticateTimerStep(c)

(* answers of the remote side *)
AuthAnswerStep(c, r) ==
  /\ conns[c].auth = "inflight"
  \* a request that was never sent, or whose connection is closed, only fails
  /\ (conns[c].via = 0 \/ conns[conns[c].via].st = "closed") => r.kind = "throw"
  /\ Do("authAnswer", PEER_AUTHENTICATE_end(World(FALSE), c, r))
  /\ UNCHANGED failures

AuthAnswer == \E c \in 1..Len(conns), r \in AuthAnswers : AuthAnswerStep(c, r)

RoomAnswerStep(q) ==
  /\ timers.roomQuery > 0
  /\ Do("roomAnswer",
        discoverRemotePeerIds([World(FALSE) EXCEPT !.timers.roomQuery = @ - 1], q))
  /\ UNCHANGED failures

RoomAnswer == \E q \in RoomAnswers : RoomAnswerStep(q)

(* events of a relay session object *)
PeerOpen ==
  \E s \in 1..Len(sessions), id \in LocalIds \cup {NoId} :
    /\ sessions[s].st = "connecting"
    /\ Do("peer.open", on_peer_open(World(FALSE), s, id))
    /\ UNCHANGED failures

PeerDisconnected ==
  \E s \in 1..Len(sessions) :
    /\ sessions[s].st \in {"connecting", "open"}
    /\ failures < cap.failures
    /\ Do("peer.disconnected", on_peer_disconnected(World(FALSE), s))
    /\ failures' = failures + 1

PeerClose ==
  \E s \in 1..Len(sessions) :
    /\ sessions[s].st \in {"connecting", "open"}
    /\ failures < cap.failures
    /\ Do("peer.close", on_peer_close(World(FALSE), s))
    /\ failures' = failures + 1

PeerError ==
  \E s \in 1..Len(sessions) :
    /\ failures < cap.failures
    /\ Do("peer.error", on_peer_error(World(FALSE), s))
    /\ failures' = failures + 1

PeerConnection ==
  \E s \in 1..Len(sessions), x \in RemoteIds :
    /\ sessions[s].st = "open"
    /\ Do("peer.connection", on_peer_connection(World(FALSE), x))
    /\ UNCHANGED failures

(* events of a data connection object *)
ConnOpenStep(c) ==
  /\ conns[c].st = "pending"
  /\ Do("conn.open", on_conn_open(World(FALSE), c))
  /\ UNCHANGED failures

ConnOpen == \E c \in 1..Len(conns) : ConnOpenStep(c)

ConnCloseStep(c) ==
  /\ conns[c].st = "open"
  /\ Do("conn.close", on_conn_close([World(FALSE) EXCEPT !.conns[c].st = "closed"], c))
  /\ UNCHANGED failures

ConnClose == \E c \in 1..Len(conns) : ConnCloseStep(c)

ConnErrorStep(c) ==
  /\ conns[c].st \in {"pending", "open"}
  /\ Do("conn.error", on_conn_error(World(FALSE), c))
  /\ UNCHANGED failures

ConnError == \E c \in 1..Len(conns) : ConnErrorStep(c)

(* --------------------------- specifications --------------------------- *)
\* the whole store
Next ==
  \/ Initialize \/ Discover \/ Connect \/ Disconnect
  \/ RemoveRemotePeerId \/ ChangeRemotePeerId
  \/ ReconnectTimer \/ DiscoveryLoopTimer \/ PeerConnectLoopTimer
  \/ OfferTimeout \/ AuthenticateTimer \/ AuthAnswer \/ RoomAnswer
  \/ PeerOpen \/ PeerDisconnected \/ PeerClose \/ PeerError \/ PeerConnection
  \/ ConnOpen \/ ConnClose \/ ConnError

Spec == Init /\ [][Next]_vars

\* the store once INITIALIZE_PNP ran and the relay session opened as "me"
ConnectedWorld(remotePeerId) ==
  on_peer_open(INITIALIZE_PNP(InitWorld(remotePeerId)), 1, "me")

InitConnected ==
  \E id \in {NoId, "A"} : Holds("peer.open", ConnectedWorld(id))

\* the peer connection and its authentication, the relay session staying up
NextPeer ==
  \/ Connect \/ Disconnect \/ RemoveRemotePeerId \/ ChangeRemotePeerId
  \/ PeerConnection
  \/ OfferTimeout \/ AuthenticateTimer \/ AuthAnswer
  \/ ConnOpen \/ ConnClose \/ ConnError

SpecPeer == InitConnected /\ [][NextPeer]_vars

\* the same with one more connection object
InitConnectedWide ==
  \E id \in {NoId, "A"} :
    Holds("peer.open", [ConnectedWorld(id) EXCEPT !.cap.conns = MaxConns + 1])

SpecPeerWide == InitConnectedWide /\ [][NextPeer]_vars

\* the relay session alone
NextRelay ==
  \/ Initialize \/ ReconnectTimer
  \/ PeerOpen \/ PeerDisconnected \/ PeerClose \/ PeerError

\* the relay may fail once more than in the other scenarios
InitRelay ==
  \E id \in {NoId, "A"} :
    Holds("init", [InitWorld(id) EXCEPT !.fx = <<>>, !.cap.failures = MaxFailures + 1])

SpecRelay == InitRelay /\ [][NextRelay]_vars

\* the reconnect timers fire and the relay answers a connecting session
LiveRelay ==
  InitRelay /\ [][NextRelay]_vars /\ WF_vars(ReconnectTimer) /\ WF_vars(PeerOpen)

\* the discovery loop and the connect loop, each waiting for the relay session
\* (which the first loop to run creates), and the relay's failures
NextLoops ==
  \/ Discover \/ DiscoveryLoopTimer \/ RoomAnswer
  \/ Connect \/ PeerConnectLoopTimer \/ Disconnect
  \/ ReconnectTimer \/ PeerOpen \/ PeerDisconnected \/ PeerClose \/ PeerError

SpecLoops == Init /\ [][NextLoops]_vars

\* discover() invoked again and again with the relay session: two discovery
\* loops can be suspended at a time
InitDiscover ==
  \E id \in {NoId, "A"} :
    Holds("init", [InitWorld(id) EXCEPT !.fx = <<>>, !.cap.loops = MaxLoops + 1])

NextDiscover ==
  \/ Discover \/ DiscoveryLoopTimer \/ RoomAnswer
  \/ ReconnectTimer \/ PeerOpen \/ PeerDisconnected

SpecDiscover == InitDiscover /\ [][NextDiscover]_vars

\* a connect attempt that runs to authentication while the relay session fails
NextPeerRelay ==
  \/ Connect \/ PeerConnectLoopTimer \/ ConnOpen \/ AuthenticateTimer \/ AuthAnswer
  \/ PeerError \/ PeerDisconnected \/ ReconnectTimer \/ PeerOpen

SpecPeerRelay == InitConnected /\ [][NextPeerRelay]_vars

(* ------------------------------- claims ------------------------------- *)
Trusted == {PEER_AUTHENTICATING, PEER_CONNECTED}

\* C1: whenever PeerConnectionStatus is AUTHENTICATING or CONNECTED, the store
\* holds a connection object and both channel handles (peerFetch, edgeAPI)
C1_TrustedImpliesHandles ==
  state.peerConnectionStatus \in Trusted =>
    /\ state.peerConnection # 0
    /\ state.peerFetch # 0
    /\ state.edgeAPI

\* C2: whenever PeerConnectionStatus is DISCONNECTED, the stored connection
\* object, peerFetch and edgeAPI are all cleared
C2_DisconnectedImpliesCleared ==
  state.peerConnectionStatus = PEER_DISCONNECTED =>
    /\ state.peerConnection = 0
    /\ state.peerFetch = 0
    /\ ~state.edgeAPI

\* the connection objects that are not closed (their handlers are wired)
Unclosed == {c \in 1..Len(conns) : conns[c].st # "closed"}

\* C3: at no time do two un-closed connection objects have their handlers wired
\* into the store: a new outbound or incoming connection finds every earlier
\* connection object closed
C3_OneUnclosedConnection == Cardinality(Unclosed) <= 1

\* C4: a connect(X) issued while PeerConnectionStatus is CONNECTING or CONNECTED
\* creates no connection object, arms or resets no offer timer and changes no
\* store state
C4_ConnectIdempotent ==
  [][\A x \in RemoteIds, thr \in BOOLEAN :
       (ConnectStep(x, thr)
          /\ state.peerConnectionStatus \in {PEER_CONNECTING, PEER_CONNECTED})
       => /\ state' = state
          /\ storage' = storage
          /\ conns' = conns
          /\ timers' = timers
          /\ sessions' = sessions]_vars

\* a connect was issued while CONNECTED and returned at its guard
C4_Witness ==
  /\ last.op = "PEER_CONNECT"
  /\ last.fx = <<<<"dispatch", "PEER_CONNECT", "B">>>>
  /\ state.peerConnectionStatus = PEER_CONNECTED
  /\ state.peerConnection # 0

\* C5: when the offer-expiry timer of an outbound attempt fires (no open event
\* came before it), the connection object created by that attempt is closed and
\* PeerConnectionStatus becomes CONNECTION_ERROR
C5_OfferTimeoutClosesConnection ==
  [][\A c \in 1..Len(conns), thr \in BOOLEAN :
       OfferTimeoutStep(c, thr)
       => /\ conns'[c].st = "closed"
          /\ state'.peerConnectionStatus = PEER_CONNECTION_ERROR]_vars

\* an authentication response that meets the success criterion: status 200 and
\* a body that contains the trust marker
GoodAnswer(r) ==
  /\ r.kind = "response"
  /\ r.status = 200
  /\ r.decodable
  /\ r.content \in {BODY_AMBIANIC, BODY_EMBEDDED}

\* C6: for an opened connection whose auth response has status 200 and a body
\* with the trust marker, PeerConnectionStatus becomes CONNECTED, the stored
\* connection object is that connection, and the persisted RemotePeerId equals
\* its peer id
C6_GoodAnswerConnects ==
  [][\A c \in 1..Len(conns), r \in AuthAnswers :
       (AuthAnswerStep(c, r) /\ GoodAnswer(r))
       => /\ state'.peerConnectionStatus = PEER_CONNECTED
          /\ state'.peerConnection = c
          /\ state'.remotePeerId = conns[c].peer
          /\ storage' = conns[c].peer]_vars

\* C7: for an opened connection whose auth response has a non-success status, a
\* body without the trust marker or an undecodable body, or whose request
\* throws, PeerConnectionStatus becomes CONNECTION_ERROR with the message
\* 'Remote peer authentication failed.', the persisted RemotePeerId is left
\* unchanged, and the attempt never becomes CONNECTED
C7_BadAnswerFails ==
  [][/\ \A c \in 1..Len(conns), r \in AuthAnswers :
          (AuthAnswerStep(c, r) /\ ~GoodAnswer(r))
          => /\ state'.peerConnectionStatus = PEER_CONNECTION_ERROR
             /\ state'.userMessage = "Remote peer authentication failed."
             /\ state'.remotePeerId = state.remotePeerId
             /\ storage' = storage
             /\ state'.peerConnection = state.peerConnection
             /\ conns'[c].auth = "failed"
     /\ \A c \in 1..Len(conns) :
          conns[c].auth = "failed" => conns'[c].auth # "passed"]_vars

\* an authentication has failed on a response of status 200 without the marker
C7_Witness ==
  /\ last.op = "authAnswer"
  /\ state.peerConnectionStatus = PEER_CONNECTION_ERROR
  /\ state.userMessage = MSG_AUTH_FAILED
  /\ \E c \in 1..Len(conns) : conns[c].auth = "failed" /\ conns[c].st = "open"

RelayFailureEvents == {"peer.disconnected", "peer.close", "peer.error"}

\* C8: after every disconnected, close or error event of the relay session,
\* once failures stop and the relay answers reconnect attempts with an open
\* event, RelaySessionStatus eventually returns to CONNECTED
C8_RelayRecovers ==
  (last.op \in RelayFailureEvents)
    ~> (state.pnpServiceConnectionStatus = PNP_SERVICE_CONNECTED)

\* the handler run of the last step made a call or commit with this tag
Calls(fx, tag) == \E i \in 1..Len(fx) : fx[i][1] = tag

Commits(fx, name) == \E i \in 1..Len(fx) : fx[i][1] = "commit" /\ fx[i][2] = name

RelayDisconnected == state.pnpServiceConnectionStatus # PNP_SERVICE_CONNECTED

\* C9: while RelaySessionStatus is CONNECTING, a relay connect request leaves
\* the store unchanged, and a step of a reconnect timer, of the discovery loop
\* or of the connect loop calls no reconnect() and constructs no session; at
\* most one session is connecting at any time
C9_ReconnectCoalescing ==
  [][/\ state.pnpServiceConnectionStatus = PNP_SERVICE_CONNECTING
        => /\ PNP_SERVICE_CONNECT(World(FALSE))
                = Fx(World(FALSE), <<"dispatch", "PNP_SERVICE_CONNECT">>)
           /\ (ReconnectTimer \/ Discover \/ DiscoveryLoopTimer
                 \/ Connect \/ PeerConnectLoopTimer)
              => /\ ~Calls(last'.fx, "peer.reconnect")
                 /\ ~Calls(last'.fx, "new Peer")
                 /\ sessions' = sessions
                 /\ state'.peer = state.peer
                 /\ state'.pnpServiceConnectionStatus = PNP_SERVICE_CONNECTING
           /\ ReconnectTimer
              => /\ state' = state
                 /\ storage' = storage
                 /\ conns' = conns
     /\ Cardinality({s \in 1..Len(sessions) : sessions[s].st = "connecting"}) <= 1
    ]_vars

\* a loop asked for the relay while it was CONNECTING and the request was dropped
C9_Witness ==
  /\ last.op \in {"discoveryLoop", "peerConnectLoop"}
  /\ Calls(last.fx, "dispatch")
  /\ ~Commits(last.fx, PNP_SERVICE_CONNECTING)
  /\ state.pnpServiceConnectionStatus = PNP_SERVICE_CONNECTING

\* C10: the room query and the connection offer are issued only while
\* RelaySessionStatus is CONNECTED; a discover or connect that runs while it is
\* not requests a relay connect, schedules its retry after its loop pause, and
\* commits neither DiscoveryStatus ERROR nor PeerConnectionStatus
\* CONNECTION_ERROR
C10_RelayPrecondition ==
  [][/\ (Calls(last'.fx, "getRoomMembers") \/ Calls(last'.fx, "peer.connect"))
        => state.pnpServiceConnectionStatus = PNP_SERVICE_CONNECTED
     /\ (RelayDisconnected /\ (Discover \/ DiscoveryLoopTimer))
        => /\ Calls(last'.fx, "dispatch")
           /\ last'.fx[Len(last'.fx)] = <<"setTimeout", "discoveryLoop", 3000>>
           /\ timers'.discoveryLoop > 0
           /\ ~Commits(last'.fx, PEER_DISCOVERING_ERROR)
           /\ \/ state'.discoveryStatus # PEER_DISCOVERING_ERROR
              \/ state.discoveryStatus = PEER_DISCOVERING_ERROR
     /\ \A x \in RemoteIds :
          (/\ RelayDisconnected
           /\ \/ PeerConnectLoopTimerStep(x)
              \/ /\ \E thr \in BOOLEAN : ConnectStep(x, thr)
                 /\ state.peerConnectionStatus \notin {PEER_CONNECTING, PEER_CONNECTED})
          => /\ Calls(last'.fx, "dispatch")
             /\ last'.fx[Len(last'.fx)] = <<"setTimeout", "peerConnectLoop", 500>>
             /\ timers'.peerConnectLoop[x] > 0
             /\ ~Commits(last'.fx, PEER_CONNECTION_ERROR)
             /\ state'.peerConnectionStatus = state.peerConnectionStatus
    ]_vars

\* a connect ran while the relay was not CONNECTED and scheduled its retry
C10_Witness ==
  /\ last.op = "PEER_CONNECT"
  /\ Calls(last.fx, "setTimeout")
  /\ ~Calls(last.fx, "peer.connect")
  /\ state.pnpServiceConnectionStatus # PNP_SERVICE_CONNECTED
  /\ state.peerConnectionStatus = PEER_DISCONNECTED

\* the member list without the local identity, in order
WithoutSelf(list) == SelectSeq(list, LAMBDA pid : pid # state.myPeerId)

\* C11: when the room member list holds no identifier but the local one,
\* discovery ends with DiscoveryStatus DONE, DiscoveredPeerSet the empty
\* sequence and the 'still looking' message; otherwise DiscoveredPeerSet is the
\* list without the local identity, in order
C11_DiscoveryResult ==
  [][\A q \in RoomAnswers :
       (RoomAnswerStep(q) /\ q.kind = "ok" /\ ~q.clientsIds.undef)
       => /\ state'.discoveryStatus = PEER_DISCOVERING_DONE
          /\ state'.discoveredPeers
               = [undef |-> FALSE, list |-> WithoutSelf(q.clientsIds.list)]
          /\ WithoutSelf(q.clientsIds.list) = <<>>
             => state'.userMessage = MSG_STILL_LOOKING]_vars

\* the calls and commits of a handler run, by name
Label(e) == IF e[1] = "commit" THEN e[2] ELSE e[1]

Labels(fx) == [i \in 1..Len(fx) |-> Label(fx[i])]

Where(L, lab) == {i \in 1..Len(L) : L[i] = lab}

\* every lab1 of L comes before every lab2 of L, and there is one of each
AllBefore(L, lab1, lab2) ==
  /\ Where(L, lab1) # {}
  /\ Where(L, lab2) # {}
  /\ \A i \in Where(L, lab1), j \in Where(L, lab2) : i < j

\* C12: starting CONNECTED to a peer with the relay CONNECTED, change-target(x)
\* commits DISCONNECTING, closes the stored connection, commits DISCONNECTED
\* (handles cleared), then persists x, and only then starts the connect attempt
\* to x (CONNECTING, with an offer to x)
C12_ChangeRemotePeerId ==
  [][\A x \in RemoteIds, thr \in BOOLEAN :
       (/\ ChangeRemotePeerIdStep(x, thr)
        /\ state.peerConnectionStatus = PEER_CONNECTED
        /\ state.pnpServiceConnectionStatus = PNP_SERVICE_CONNECTED)
       => LET L == Labels(last'.fx) IN
          /\ L[1] = PEER_DISCONNECTING
          /\ AllBefore(L, PEER_DISCONNECTING, PEER_DISCONNECTED)
          /\ ~thr => \E i \in Where(L, "conn.close") :
                        /\ last'.fx[i][2] = state.peerConnection
                        /\ \E j \in Where(L, PEER_DISCONNECTED) : i < j
          /\ AllBefore(L, PEER_DISCONNECTED, "NEW_REMOTE_PEER_ID")
          /\ AllBefore(L, "REMOTE_PEER_ID_REMOVED", "NEW_REMOTE_PEER_ID")
          /\ AllBefore(L, "NEW_REMOTE_PEER_ID", PEER_CONNECTING)
          /\ AllBefore(L, PEER_CONNECTING, "peer.connect")
          /\ \A i \in Where(L, "peer.connect") : last'.fx[i][3] = x
          /\ state'.remotePeerId = x
          /\ storage' = x
          /\ state'.peerConnectionStatus = PEER_CONNECTING
          /\ state'.peerConnection = 0
          /\ state'.peerFetch = 0
          /\ ~state'.edgeAPI]_vars

\* a change of target closed the open stored connection, persisted B and
\* started the attempt to B
C12_Witness ==
  /\ last.op = "CHANGE_REMOTE_PEER_ID"
  /\ Cardinality(Where(Labels(last.fx), PEER_DISCONNECTED)) = 2
  /\ Calls(last.fx, "conn.close")
  /\ Calls(last.fx, "peer.connect")
  /\ storage = "B"
  /\ state.peerConnectionStatus = PEER_CONNECTING

\* C13: from every peer-connection status, remove() first disconnects and then
\* clears the identifier: when it completes PeerConnectionStatus is
\* DISCONNECTED and RemotePeerId is absent in the store and in durable storage
C13_RemoveRemotePeerId ==
  [][\A thr \in BOOLEAN :
       RemoveRemotePeerIdStep(thr)
       => LET L == Labels(last'.fx) IN
          /\ state'.peerConnectionStatus = PEER_DISCONNECTED
          /\ state'.remotePeerId = NoId
          /\ storage' = NoId
          /\ L[Len(L)] = "REMOTE_PEER_ID_REMOVED"
          /\ state.peerConnectionStatus # PEER_DISCONNECTED
             => /\ AllBefore(L, PEER_DISCONNECTED, "REMOTE_PEER_ID_REMOVED")
                /\ state'.peerConnection = 0
                /\ state'.peerFetch = 0
                /\ ~state'.edgeAPI]_vars

\* a remove ran while CONNECTED: it closed the stored connection and cleared
\* the identifier
C13_Witness ==
  /\ last.op = "REMOVE_REMOTE_PEER_ID"
  /\ Calls(last.fx, "conn.close")
  /\ Cardinality(Where(Labels(last.fx), PEER_DISCONNECTED)) = 2
  /\ state.peerConnectionStatus = PEER_DISCONNECTED
  /\ storage = NoId

PeerStatuses ==
  {PEER_DISCONNECTED, PEER_CONNECTING, PEER_DISCONNECTING, PEER_AUTHENTICATING,
   PEER_CONNECTED, PEER_CONNECTION_ERROR}

\* the statuses the connect sequence may enter a status from
EnteredFrom(status) ==
  CASE status = PEER_CONNECTING -> {PEER_DISCONNECTED, PEER_CONNECTION_ERROR}
    [] status = PEER_AUTHENTICATING -> {PEER_CONNECTING}
    [] status = PEER_CONNECTED -> {PEER_AUTHENTICATING}
    [] OTHER -> PeerStatuses

\* the values PeerConnectionStatus takes in a step: the one before it, then
\* the commits of the step, in order
StatusTrail(before, fx) ==
  <<before>> \o SelectSeq(Labels(fx), LAMBDA lab : lab \in PeerStatuses)

\* C14: PeerConnectionStatus enters CONNECTING only from DISCONNECTED or
\* CONNECTION_ERROR, AUTHENTICATING only from CONNECTING, and CONNECTED only
\* from AUTHENTICATING (the connect sequence of the claim's state machine)
C14_PeerStatusMachine ==
  [][LET T == StatusTrail(state.peerConnectionStatus, last'.fx) IN
     \A i \in 1..(Len(T) - 1) :
        T[i + 1] # T[i] => T[i] \in EnteredFrom(T[i + 1])]_vars

\* the values DiscoveryStatus takes in a step
DiscoveryTrail(before, fx) ==
  <<before>> \o SelectSeq(Labels(fx),
                          LAMBDA lab : lab \in {PEER_DISCOVERING, PEER_DISCOVERING_DONE,
                                                PEER_DISCOVERING_ERROR,
                                                PEER_DISCOVERING_CANCELLED})

\* C15: DiscoveryStatus becomes DISCOVERING only from OFF, DONE or ERROR, and
\* becomes DONE, ERROR or CANCELLED only from DISCOVERING, also when discover()
\* is invoked while an earlier discovery loop is still waiting
C15_DiscoveryLinear ==
  [][LET T == DiscoveryTrail(state.discoveryStatus, last'.fx) IN
     \A i \in 1..(Len(T) - 1) :
        T[i + 1] # T[i]
        => IF T[i + 1] = PEER_DISCOVERING
           THEN T[i] \in {PEER_DISCOVERING_OFF, PEER_DISCOVERING_DONE,
                          PEER_DISCOVERING_ERROR}
           ELSE T[i] = PEER_DISCOVERING]_vars

\* the step is the end of a successful authentication of a connection to the
\* identifier that is persisted after it
AuthenticatedWrite ==
  /\ last'.op = "authAnswer"
  /\ state'.peerConnectionStatus = PEER_CONNECTED
  /\ state'.peerConnection # 0
  /\ conns'[state'.peerConnection].auth = "passed"
  /\ conns'[state'.peerConnection].peer = storage'

\* C16 as stated: the persisted RemotePeerId is written only after a
\* successful authentication of that identifier, and cleared only by an
\* explicit removal request
C16_WrittenOnlyAfterAuth ==
  [][/\ Commits(last'.fx, "NEW_REMOTE_PEER_ID") => AuthenticatedWrite
     /\ Commits(last'.fx, "REMOTE_PEER_ID_REMOVED")
        => last'.op \in {"REMOVE_REMOTE_PEER_ID", "CHANGE_REMOTE_PEER_ID"}]_vars

\* C16, amended: the persisted RemotePeerId is written only by a successful
\* authentication of a connection to that identifier or by a change-target
\* request for that identifier, and cleared only by a remove or change-target
\* request; the store and durable storage always agree
C16_PersistenceDiscipline ==
  [][/\ Commits(last'.fx, "NEW_REMOTE_PEER_ID")
        => \/ AuthenticatedWrite
           \/ \E x \in RemoteIds, thr \in BOOLEAN :
                ChangeRemotePeerIdStep(x, thr) /\ storage' = x
     /\ Commits(last'.fx, "REMOTE_PEER_ID_REMOVED")
        => last'.op \in {"REMOVE_REMOTE_PEER_ID", "CHANGE_REMOTE_PEER_ID"}
     /\ storage' # storage
        => \/ Commits(last'.fx, "NEW_REMOTE_PEER_ID")
           \/ Commits(last'.fx, "REMOTE_PEER_ID_REMOVED")
     /\ state'.remotePeerId = storage']_vars

\* an authentication passed and its identifier B was persisted
C16_Witness ==
  /\ last.op = "authAnswer"
  /\ Commits(last.fx, "NEW_REMOTE_PEER_ID")
  /\ state.peerConnectionStatus = PEER_CONNECTED
  /\ storage = "B"

\* the connections whose failure the step reported through
\* HANDLE_PEER_CONNECTION_ERROR
Reported(fx) ==
  {fx[i][3] : i \in {j \in 1..Len(fx) :
                       fx[j][1] = "dispatch" /\ fx[j][2] = "HANDLE_PEER_CONNECTION_ERROR"}}

\* C17: after a failure reported through the connection-error handler (offer
\* timeout, error event of the connection, authentication failure), the
\* message is published, PeerConnectionStatus is CONNECTION_ERROR, the failed
\* connection object is closed, and the stored connection reference and both
\* channel handles are cleared
C17_ErrorFunnelTearsDown ==
  [][\A c \in Reported(last'.fx) :
       /\ state'.userMessage \in {MSG_OFFER_EXPIRED, MSG_CONN_ERROR, MSG_AUTH_FAILED}
       /\ state'.peerConnectionStatus = PEER_CONNECTION_ERROR
       /\ conns'[c].st = "closed"
       /\ state'.peerConnection = 0
       /\ state'.peerFetch = 0
       /\ ~state'.edgeAPI]_vars

\* C18: disconnect invoked in a status other than DISCONNECTED commits
\* DISCONNECTING, closes the connection object of the current attempt, and
\* ends DISCONNECTED with the connection reference and both handles cleared,
\* also when close() throws; invoked when DISCONNECTED it changes no store state
C18_Disconnect ==
  [][\A thr \in BOOLEAN :
       DisconnectStep(thr)
       => IF state.peerConnectionStatus = PEER_DISCONNECTED
          THEN state' = state /\ storage' = storage /\ conns' = conns
          ELSE /\ Labels(last'.fx)[1] = PEER_DISCONNECTING
               /\ state'.peerConnectionStatus = PEER_DISCONNECTED
               /\ state'.peerConnection = 0
               /\ state'.peerFetch = 0
               /\ ~state'.edgeAPI
               /\ ~thr => \A c \in 1..Len(conns) : conns'[c].st = "closed"]_vars

\* C19: once the open, close or error event of an outbound attempt's
\* connection object has been handled, the attempt's offer-expiry handler never
\* runs: the event's handler cancels the timer, a cancelled timer never fires,
\* and the handler only ever runs for a connection that is still pending and
\* has seen no event
C19_OfferTimerOrdering ==
  [][/\ \A c \in 1..Len(conns) :
          (ConnOpenStep(c) \/ ConnCloseStep(c) \/ ConnErrorStep(c))
          => conns'[c].timer # "armed"
     /\ \A c \in 1..Len(conns) :
          conns[c].timer \in {"cleared", "none"} => conns'[c].timer # "fired"
     /\ \A c \in 1..Len(conns), thr \in BOOLEAN :
          OfferTimeoutStep(c, thr)
          => /\ conns[c].st = "pending"
             /\ conns[c].auth = "none"
             /\ state.peerFetch # c
             /\ state.peerConnection # c]_vars

\* an attempt's connection opened before its offer timer fired, the timer was
\* cancelled and the attempt went on to authenticate
C19_Witness ==
  \E c \in 1..Len(conns) :
    /\ conns[c].timer = "cleared"
    /\ conns[c].st = "open"
    /\ conns[c].auth = "passed"
    /\ state.peerConnection = c

\* C20: after an error event of the relay session is handled, from any state,
\* RelaySessionStatus is DISCONNECTED, PeerConnectionStatus is DISCONNECTED
\* with the connection reference and both handles cleared, and a relay
\* reconnect is scheduled; the peer connection is cleared before the reconnect
\* is scheduled
C20_RelayError ==
  [][PeerError
     => LET L == Labels(last'.fx) IN
        /\ state'.pnpServiceConnectionStatus = PNP_SERVICE_DISCONNECTED
        /\ state'.peerConnectionStatus = PEER_DISCONNECTED
        /\ state'.peerConnection = 0
        /\ state'.peerFetch = 0
        /\ ~state'.edgeAPI
        /\ timers'.reconnect = timers.reconnect + 1
        /\ last'.fx[Len(last'.fx)] = <<"setTimeout", "PNP_SERVICE_CONNECT", 3000>>
        /\ AllBefore(L, PNP_SERVICE_DISCONNECTED, "setTimeout")
        /\ AllBefore(L, PEER_DISCONNECTED, "setTimeout")]_vars

\* a relay error was handled while a peer was connected: the reference to the
\* authenticated connection is gone and a reconnect is pending
C20_Witness ==
  /\ last.op = "peer.error"
  /\ state.peerConnectionStatus = PEER_DISCONNECTED
  /\ state.peerConnection = 0
  /\ state.peerFetch = 0
  /\ timers.reconnect > 0
  /\ \E c \in 1..Len(conns) : conns[c].auth = "passed" /\ conns[c].st = "open"

\* the connection objects the handler run made the offer of
Offered(fx) == {fx[i][2] : i \in {j \in 1..Len(fx) : fx[j][1] = "peer.connect"}}

\* C21: the offer-expiry timer of one connect attempt affects only that
\* attempt: when a later attempt has just made its offer (it is CONNECTING)
\* and the timer of an earlier attempt, abandoned while CONNECTING, fires, the
\* later attempt's connection object is not closed and PeerConnectionStatus
\* does not become CONNECTION_ERROR
C21_TimerIsolation ==
  [][\A c \in 1..Len(conns), thr \in BOOLEAN :
       (/\ OfferTimeoutStep(c, thr)
        /\ state.peerConnectionStatus = PEER_CONNECTING
        /\ Offered(last.fx) \ {c} # {})
       => /\ state'.peerConnectionStatus # PEER_CONNECTION_ERROR
          /\ \A d \in Offered(last.fx) \ {c} : conns'[d].st = conns[d].st]_vars

\* C22: teardown is sticky: while PeerConnectionStatus is DISCONNECTED (it got
\* there through disconnect, a close event or a relay error, and no connect or
\* incoming connection came since), no pending event of an earlier attempt (its
\* open event, its scheduled authentication, its authentication response, its
\* error event) changes PeerConnectionStatus or sets a channel handle
C22_TeardownSticky ==
  [][(/\ state.peerConnectionStatus = PEER_DISCONNECTED
      /\ (ConnOpen \/ AuthenticateTimer \/ AuthAnswer \/ ConnError))
     => /\ state'.peerConnectionStatus = PEER_DISCONNECTED
        /\ state'.peerFetch = state.peerFetch
        /\ state'.edgeAPI = state.edgeAPI]_vars

\* C23: between handler runs, whenever the relay session object the store
\* holds is open, RelaySessionStatus is CONNECTED (so the status is never left
\* DISCONNECTED with a session on which every connect request is a no-op)
C23_RelayStatusAgrees ==
  (state.peer # 0 /\ sessions[state.peer].st = "open")
    => state.pnpServiceConnectionStatus = PNP_SERVICE_CONNECTED

\* C24: in every reachable state, also after Initialize was invoked in any
\* relay status, RelaySessionStatus CONNECTING or CONNECTED implies that the
\* store holds a session object
C24_SessionObjectExists ==
  state.pnpServiceConnectionStatus \in {PNP_SERVICE_CONNECTING, PNP_SERVICE_CONNECTED}
    => state.peer # 0

\* C25: whenever PeerConnectionStatus is CONNECTED, the byte-stream wrapper the
\* store holds wraps the stored connection object, and that connection's peer
\* id is the stored RemotePeerId
C25_HandlesOfTrackedConnection ==
  state.peerConnectionStatus = PEER_CONNECTED
    => /\ state.peerConnection # 0
       /\ state.peerFetch = state.peerConnection
       /\ conns[state.peerConnection].peer = state.remotePeerId

====
